---------------------------- MODULE Spec2Model ----------------------------
(***************************************************************************)
(* A model of src/src/raytracer.cpp: the float arithmetic it relies on,    *)
(* the Vec3 and Color value types, Plane::intersect, Sphere::intersect,    *)
(* Scene::intersect, the recursive Scene::trace (as an explicit call       *)
(* stack) and main (clear, frame loop, gamma pass, save, exit status).     *)
(*                                                                         *)
(* Numbers.  A C++ float is modelled by an integer of the lattice          *)
(* -FltMax .. FltMax together with PInf, NInf and NaN.  A result beyond    *)
(* FltMax overflows to an infinity, division and square root round toward  *)
(* zero, and every comparison with NaN is false, as in IEEE 754.  Negative *)
(* zero is not distinguished from zero.                                    *)
(*                                                                         *)
(* Units.  A length is counted in quanta of 1e-4 world units, so that the  *)
(* reflection bias 1e-4 is 1 and the shadow epsilon 1e-3 is 10.  The       *)
(* components of a direction or a normal are plain numbers (a unit vector  *)
(* has length 1).  A colour channel, a reflectivity and a light's          *)
(* attenuation are fixed-point numbers in which 1.0 is ColorOne.           *)
(***************************************************************************)
EXTENDS Integers, Sequences, FiniteSets

VARIABLES objects, lights, stack, ret, last,
          mpc, cursor, image, file, exitStatus

vars == <<objects, lights, stack, ret, last, mpc, cursor, image, file, exitStatus>>
traceVars == <<objects, lights, stack, ret, last>>
mainVars == <<mpc, cursor, image, file, exitStatus>>

---------------------------------------------------------------------------
(* float *)

FltMax == 10000
PInf == FltMax + 1
NInf == -(FltMax + 1)
NaN == FltMax + 2

IsNaN(a) == a = NaN
IsInf(a) == a = PInf \/ a = NInf
IsFinite(a) == ~IsNaN(a) /\ ~IsInf(a)

Sgn(a) == IF a > 0 THEN 1 ELSE IF a < 0 THEN -1 ELSE 0
Abs(a) == IF a < 0 THEN -a ELSE a

\* the float nearest to the exact result x: beyond the largest finite float, an infinity
Round(x) == IF x > FltMax THEN PInf ELSE IF x < -FltMax THEN NInf ELSE x

FNeg(a) == IF IsNaN(a) THEN NaN ELSE -a

FAdd(a, b) ==
  IF IsNaN(a) \/ IsNaN(b) THEN NaN
  ELSE IF IsInf(a) /\ IsInf(b) THEN (IF a = b THEN a ELSE NaN)
  ELSE IF IsInf(a) THEN a
  ELSE IF IsInf(b) THEN b
  ELSE Round(a + b)

FSub(a, b) == FAdd(a, FNeg(b))

FMul(a, b) ==
  IF IsNaN(a) \/ IsNaN(b) THEN NaN
  ELSE IF IsInf(a) \/ IsInf(b)
       THEN (IF a = 0 \/ b = 0 THEN NaN
             ELSE IF Sgn(a) * Sgn(b) > 0 THEN PInf ELSE NInf)
  ELSE Round(a * b)

FDiv(a, b) ==
  IF IsNaN(a) \/ IsNaN(b) THEN NaN
  ELSE IF IsInf(a) /\ IsInf(b) THEN NaN
  ELSE IF IsInf(a) THEN (IF Sgn(a) * Sgn(b) < 0 THEN NInf ELSE PInf)
  ELSE IF IsInf(b) THEN 0
  ELSE IF b = 0 THEN (IF a = 0 THEN NaN ELSE IF a > 0 THEN PInf ELSE NInf)
  ELSE Sgn(a) * Sgn(b) * (Abs(a) \div Abs(b))

FSqrt(a) ==
  IF IsNaN(a) \/ a < 0 THEN NaN
  ELSE IF a = PInf THEN PInf
  ELSE CHOOSE r \in 0 .. 100 : r * r <= a /\ a < (r + 1) * (r + 1)

FLt(a, b) == ~IsNaN(a) /\ ~IsNaN(b) /\ a < b
FGt(a, b) == ~IsNaN(a) /\ ~IsNaN(b) /\ a > b
FGe(a, b) == ~IsNaN(a) /\ ~IsNaN(b) /\ a >= b
FEq(a, b) == ~IsNaN(a) /\ ~IsNaN(b) /\ a = b
FNe(a, b) == ~FEq(a, b)

---------------------------------------------------------------------------
(* Vec3 *)

Vec(x, y, z) == [x |-> x, y |-> y, z |-> z]

Dot(a, b) == FAdd(FAdd(FMul(a.x, b.x), FMul(a.y, b.y)), FMul(a.z, b.z))

Length2(v) == Dot(v, v)

Length(v) == FSqrt(Length2(v))

VScale(v, s) == Vec(FMul(v.x, s), FMul(v.y, s), FMul(v.z, s))

VAdd(a, b) == Vec(FAdd(a.x, b.x), FAdd(a.y, b.y), FAdd(a.z, b.z))

VSub(a, b) == Vec(FSub(a.x, b.x), FSub(a.y, b.y), FSub(a.z, b.z))

\* (*this) * (1.0 / l): on the lattice the scale by 1/l is the division by l
Normalize(v) ==
  LET l == Length(v)
  IN IF FEq(l, 0) THEN v ELSE Vec(FDiv(v.x, l), FDiv(v.y, l), FDiv(v.z, l))

Reflect(v, normal) == VSub(v, VScale(VScale(normal, 2), Dot(normal, v)))

---------------------------------------------------------------------------
(* Color *)

ColorOne == 10

Color(r, g, b) == [r |-> r, g |-> g, b |-> b]

Grey(w) == Color(w, w, w)

\* the product of two fixed-point numbers in which 1.0 is ColorOne
FxMul(a, b) ==
  IF IsFinite(a) /\ IsFinite(b)
  THEN Round(Sgn(a) * Sgn(b) * ((Abs(a) * Abs(b)) \div ColorOne))
  ELSE FMul(a, b)

\* 0.299 r + 0.587 g + 0.114 b, evaluated in double: exact here, in thousandths
Brightness(c) ==
  LET ch == {c.r, c.g, c.b}
  IN IF NaN \in ch \/ (PInf \in ch /\ NInf \in ch) THEN NaN
     ELSE IF PInf \in ch THEN PInf
     ELSE IF NInf \in ch THEN NInf
     ELSE 299 * c.r + 587 * c.g + 114 * c.b

CScale(c, s) == Color(FxMul(c.r, s), FxMul(c.g, s), FxMul(c.b, s))

CMul(a, b) == Color(FxMul(a.r, b.r), FxMul(a.g, b.g), FxMul(a.b, b.b))

CAdd(a, b) == Color(FAdd(a.r, b.r), FAdd(a.g, b.g), FAdd(a.b, b.b))

---------------------------------------------------------------------------
(* Material, PointLight, Intersection, Plane, Sphere *)

Material(albedo, reflectivity) == [albedo |-> albedo, reflectivity |-> reflectivity]

PointLight(position, power, color) ==
  [position |-> position, power |-> power, color |-> color]

Zero3 == Vec(0, 0, 0)

NoMaterial == Material(Grey(0), 0)

Intersection(distance, position, normal, material) ==
  [hit |-> TRUE, distance |-> distance, position |-> position,
   normal |-> normal, material |-> material]

\* std::nullopt
NoHit ==
  [hit |-> FALSE, distance |-> 0, position |-> Zero3,
   normal |-> Zero3, material |-> NoMaterial]

Plane(material, origin, normal) ==
  [kind |-> "plane", material |-> material, at |-> origin,
   normal |-> normal, radius |-> 0]

Sphere(material, center, radius) ==
  [kind |-> "sphere", material |-> material, at |-> center,
   normal |-> Zero3, radius |-> radius]

\* 1e-6, below the lattice's resolution of a cosine
DenomEps == 0

PlaneDenom(pl, ray_direction) == FNeg(Dot(pl.normal, ray_direction))

PlaneT(pl, ray_origin, ray_direction) ==
  FDiv(FNeg(Dot(VSub(pl.at, ray_origin), pl.normal)), PlaneDenom(pl, ray_direction))

PlaneIntersect(pl, ray_origin, ray_direction) ==
  LET t == PlaneT(pl, ray_origin, ray_direction)
  IN IF FGt(PlaneDenom(pl, ray_direction), DenomEps) /\ FGe(t, 0)
     THEN Intersection(t, VAdd(ray_origin, VScale(ray_direction, t)),
                       pl.normal, pl.material)
     ELSE NoHit

SphereRadius2(sp) == FMul(sp.radius, sp.radius)

SphereTca(sp, ray_origin, ray_direction) ==
  Dot(VSub(sp.at, ray_origin), ray_direction)

SphereD2(sp, ray_origin, ray_direction) ==
  LET L == VSub(sp.at, ray_origin)
      tca == SphereTca(sp, ray_origin, ray_direction)
  IN FSub(Dot(L, L), FMul(tca, tca))

SphereThc(sp, ray_origin, ray_direction) ==
  FSqrt(FSub(SphereRadius2(sp), SphereD2(sp, ray_origin, ray_direction)))

\* the root the sphere reports, or NoRoot: t0 and t1 are swapped if out of order,
\* a negative t0 is replaced by t1, and a t0 still negative is no hit
NoRoot == [some |-> FALSE, t |-> 0]

SphereRootBothOnly(t0, t1) ==
  IF FLt(t0, 0) THEN NoRoot ELSE [some |-> TRUE, t |-> t0]

SphereRoot(t0, t1) ==
  LET lo == IF FGt(t0, t1) THEN t1 ELSE t0
      hi == IF FGt(t0, t1) THEN t0 ELSE t1
      u == IF FLt(lo, 0) THEN hi ELSE lo
  IN IF FLt(lo, 0) /\ FLt(u, 0) THEN NoRoot ELSE [some |-> TRUE, t |-> u]

\* the hit at the root the quadratic yields
SphereHit(sp, ray_origin, ray_direction, root) ==
  IF ~root.some THEN NoHit
  ELSE Intersection(root.t,
                    VAdd(ray_origin, VScale(ray_direction, root.t)),
                    Normalize(VSub(VAdd(ray_origin, VScale(ray_direction, root.t)), sp.at)),
                    sp.material)

\* t0 = tca - thc, t1 = tca + thc
SphereRoots(tca, thc) == SphereRoot(FSub(tca, thc), FAdd(tca, thc))

SphereIntersect(sp, ray_origin, ray_direction) ==
  IF FGt(SphereD2(sp, ray_origin, ray_direction), SphereRadius2(sp)) THEN NoHit
  ELSE SphereHit(sp, ray_origin, ray_direction,
                 SphereRoots(SphereTca(sp, ray_origin, ray_direction),
                             SphereThc(sp, ray_origin, ray_direction)))

\* std::visit over the variant
ObjectIntersect(obj, ray_origin, ray_direction) ==
  IF obj.kind = "plane" THEN PlaneIntersect(obj, ray_origin, ray_direction)
  ELSE SphereIntersect(obj, ray_origin, ray_direction)

---------------------------------------------------------------------------
(* Scene::intersect *)

\* if(hit->distance < final_hit.distance) final_hit = *hit
Closer(hit, final_hit) == hit.hit /\ FLt(hit.distance, final_hit.distance)

ScanStep(hit, final_hit) == IF Closer(hit, final_hit) THEN hit ELSE final_hit

\* the loop over the objects: final_hit after the first i of them
ScanObjects(objs, start, ray_origin, ray_direction) ==
  LET final_hit[i \in 0 .. Len(objs)] ==
        IF i = 0 THEN start
        ELSE ScanStep(ObjectIntersect(objs[i], ray_origin, ray_direction),
                      final_hit[i - 1])
  IN final_hit[Len(objs)]

\* final_hit starts with distance FLT_MAX and its other fields unset; they are
\* read only once a hit has been copied over them
ScanStart == [NoHit EXCEPT !.hit = TRUE, !.distance = FltMax]

ScanResult(final_hit) ==
  IF FNe(final_hit.distance, FltMax) THEN final_hit ELSE NoHit

SceneIntersect(objs, ray_origin, ray_direction) ==
  ScanResult(ScanObjects(objs, ScanStart, ray_origin, ray_direction))

---------------------------------------------------------------------------
(* Scene::trace *)

max_recursion == 10

\* Color{0.1}
Ambient == 1

\* 1e-3
ShadowEps == 10

\* 1e-4
Bias == 1

\* std::optional<Color>
Some(c) == [some |-> TRUE, color |-> c]

NoColor == [some |-> FALSE, color |-> Grey(0)]

LightDelta(light, position) == VSub(position, light.position)

ShadowHit(objs, light, position) ==
  SceneIntersect(objs, light.position, Normalize(LightDelta(light, position)))

\* the ray to the light is obstructed
ObstructedNever(objs, light, position) == FALSE

\* hit->distance < (distance_to_light - 1e-3)
Nearer(hit, distance_to_light) ==
  hit.hit /\ FLt(hit.distance, FSub(distance_to_light, ShadowEps))

Obstructed(objs, light, position) ==
  Nearer(ShadowHit(objs, light, position), Length(LightDelta(light, position)))

Attenuation(light, position) ==
  FDiv(light.power, Length(LightDelta(light, position)))

\* what one light adds to the lighting accumulator
LightContribution(objs, light, position) ==
  IF Obstructed(objs, light, position) THEN Grey(0)
  ELSE CScale(light.color, Attenuation(light, position))

\* the loop over the lights, from the ambient term
Lighting(objs, lts, position) ==
  LET lighting[k \in 0 .. Len(lts)] ==
        IF k = 0 THEN Grey(Ambient)
        ELSE CAdd(lighting[k - 1], LightContribution(objs, lts[k], position))
  IN lighting[Len(lts)]

Lit(albedo) == FGt(Brightness(albedo), 0)

\* surface_albedo after the lighting step
Shade(objs, lts, intersection) ==
  IF Lit(intersection.material.albedo)
  THEN CMul(intersection.material.albedo, Lighting(objs, lts, intersection.position))
  ELSE intersection.material.albedo

ShouldReflectAnyMaterial(recursion, material) == recursion > 0

ShouldReflect(recursion, material) ==
  recursion > 0 /\ FGt(material.reflectivity, 0)

NextBudgetSame(recursion) == recursion

NextBudget(recursion) == recursion - 1

ReflectedDirection(ray_direction, intersection) ==
  Reflect(ray_direction, intersection.normal)

ReflectedOrigin(ray_direction, intersection) ==
  VAdd(intersection.position,
       VScale(ReflectedDirection(ray_direction, intersection), Bias))

\* surface_albedo + surface_reflection, the latter black unless the reflected
\* ray's trace returned a color
TraceResultPropagate(surface_albedo, reflected) ==
  IF reflected.some THEN Some(CAdd(surface_albedo, reflected.color)) ELSE NoColor

TraceResult(surface_albedo, reflected) ==
  Some(CAdd(surface_albedo, IF reflected.some THEN reflected.color ELSE Grey(0)))

Frame(ray_origin, ray_direction, recursion) ==
  [ray_origin |-> ray_origin, ray_direction |-> ray_direction,
   recursion |-> recursion, pc |-> "enter",
   intersection |-> NoHit, surface_albedo |-> Grey(0)]

Top == stack[Len(stack)]

Pop == SubSeq(stack, 1, Len(stack) - 1)

NoReturn == [valid |-> FALSE, value |-> NoColor]

NoCall ==
  [valid |-> FALSE, ray_origin |-> Zero3, ray_direction |-> Zero3, recursion |-> 0,
   intersection |-> NoHit, surface_albedo |-> Grey(0), contribs |-> <<>>,
   child |-> "none", value |-> NoColor]

\* what each light added to the accumulator, when the lighting step ran
Contribs(objs, lts, intersection) ==
  IF intersection.hit /\ Lit(intersection.material.albedo)
  THEN [k \in 1 .. Len(lts) |-> LightContribution(objs, lts[k], intersection.position)]
  ELSE <<>>

Finished(frame, intersection, surface_albedo, child, value) ==
  [valid |-> TRUE, ray_origin |-> frame.ray_origin,
   ray_direction |-> frame.ray_direction, recursion |-> frame.recursion,
   intersection |-> intersection, surface_albedo |-> surface_albedo,
   contribs |-> Contribs(objects, lights, intersection),
   child |-> child, value |-> value]

\* intersect(ray_origin, ray_direction) for the call on top of the stack
TopIntersection == { SceneIntersect(objects, Top.ray_origin, Top.ray_direction) }

\* the ray hits nothing: return std::nullopt
TraceMiss ==
  /\ stack # <<>>
  /\ Top.pc = "enter"
  /\ \E hit \in TopIntersection :
       /\ ~hit.hit
       /\ last' = Finished(Top, hit, Grey(0), "none", NoColor)
  /\ stack' = Pop
  /\ ret' = [valid |-> TRUE, value |-> NoColor]
  /\ UNCHANGED <<objects, lights, mainVars>>

\* a hit, and no reflection to follow: return the lit albedo
TraceLeaf ==
  /\ stack # <<>>
  /\ Top.pc = "enter"
  /\ \E hit \in TopIntersection :
       /\ hit.hit
       /\ ~ShouldReflect(Top.recursion, hit.material)
       /\ \E albedo \in { Shade(objects, lights, hit) } :
            /\ ret' = [valid |-> TRUE, value |-> TraceResult(albedo, NoColor)]
            /\ last' = Finished(Top, hit, albedo, "none", TraceResult(albedo, NoColor))
  /\ stack' = Pop
  /\ UNCHANGED <<objects, lights, mainVars>>

\* a hit on a reflecting material with budget left: the recursive call
TraceRecurse ==
  /\ stack # <<>>
  /\ Top.pc = "enter"
  /\ \E hit \in TopIntersection :
       /\ hit.hit
       /\ ShouldReflect(Top.recursion, hit.material)
       /\ stack' = Append(Append(Pop,
                                 [Top EXCEPT !.pc = "wait", !.intersection = hit,
                                             !.surface_albedo = Shade(objects, lights, hit)]),
                          Frame(ReflectedOrigin(Top.ray_direction, hit),
                                ReflectedDirection(Top.ray_direction, hit),
                                NextBudget(Top.recursion)))
  /\ ret' = NoReturn
  /\ UNCHANGED <<objects, lights, last, mainVars>>

\* the recursive call has returned: add its color, if any, and return
TraceResume ==
  /\ stack # <<>>
  /\ Top.pc = "wait"
  /\ ret.valid
  /\ \E value \in { TraceResult(Top.surface_albedo, ret.value) } :
       /\ ret' = [valid |-> TRUE, value |-> value]
       /\ last' = Finished(Top, Top.intersection, Top.surface_albedo,
                           IF ret.value.some THEN "color" ELSE "nocolor", value)
  /\ stack' = Pop
  /\ UNCHANGED <<objects, lights, mainVars>>

---------------------------------------------------------------------------
(* The scenes and rays the trace is run on *)

MaxShapes == 2

White == Material(Grey(10), 0)
Mirror == Material(Grey(0), 10)
Glossy == Material(Color(10, 0, 0), 10)
Odd == Material(Color(10, -10, 0), 0)

ZPlus == Vec(0, 0, 1)
ZMinus == Vec(0, 0, -1)

ShapePool ==
  { Plane(White, Vec(0, 0, 40), ZMinus),
    Plane(Mirror, Vec(0, 0, 40), ZMinus),
    Plane(Glossy, Vec(0, 0, -10), ZPlus),
    Plane(White, Vec(0, 0, 20), ZPlus),
    Plane(Odd, Vec(0, 0, 20), ZMinus),
    Plane(White, Vec(0, 0, 15), ZMinus),
    Plane(White, Vec(0, 0, FltMax), ZMinus),
    Sphere(Mirror, Vec(0, 0, 20), 5),
    Sphere(White, Vec(0, 0, 0), 5),
    Sphere(White, Vec(30, 0, 20), 5),
    Sphere(White, Vec(0, 0, FltMax), 5) }

Scenes == UNION { [1 .. n -> ShapePool] : n \in 0 .. MaxShapes }

LightAtOrigin == PointLight(Vec(0, 0, 0), 200, Grey(10))
LightAhead == PointLight(Vec(0, 0, 30), 100, Grey(10))

LightConfigs == { <<>>, <<LightAtOrigin>>, <<LightAhead>>, <<LightAtOrigin, LightAhead>> }

RayOrigins == { Vec(0, 0, 0), Vec(0, 0, 30) }
RayDirections == { ZPlus, ZMinus }

---------------------------------------------------------------------------
(* main *)

Width == 2
Height == 2

PixelIndex(x, y) == y * Width + x + 1

\* a pixel of the buffer: its color, how often powf has been applied to it, and
\* the accesses made to it so far
Pixel(color, graded, writes, reads, sets, loopReads) ==
  [color |-> color, graded |-> graded, writes |-> writes, reads |-> reads,
   sets |-> sets, loopReads |-> loopReads]

\* Image::clear and Image::set store a color
Store(px, color) ==
  [px EXCEPT !.color = color, !.graded = 0, !.writes = @ + 1]

\* Image::apply reads the pixel and stores f of it
Grade(px) ==
  [px EXCEPT !.graded = @ + 1, !.reads = @ + 1, !.writes = @ + 1]

\* Image::save reads the pixel
Load(px) == [px EXCEPT !.reads = @ + 1]

SetPixelAll(img, x, y, color) ==
  [p \in DOMAIN img |-> [Store(img[p], color) EXCEPT !.sets = @ + 1]]

SetPixel(img, x, y, color) ==
  [img EXCEPT ![PixelIndex(x, y)] = [Store(@, color) EXCEPT !.sets = @ + 1]]

\* what scene.trace may hand back for a pixel
TraceOutcomes == { NoColor, Some(Grey(5)), Some(Grey(11)) }

Clear ==
  /\ mpc = "clear"
  /\ image' = [p \in DOMAIN image |-> Store(image[p], Grey(0))]
  /\ cursor' = [x |-> 0, y |-> 0]
  /\ mpc' = IF Height > 0 /\ Width > 0 THEN "render" ELSE "gamma"
  /\ UNCHANGED <<file, exitStatus, traceVars>>

\* one iteration of the inner loop: trace the pixel's ray and set the pixel
RenderPixel ==
  /\ mpc = "render"
  /\ \E color \in TraceOutcomes :
       image' = SetPixel(image, cursor.x, cursor.y,
                         IF color.some THEN color.color ELSE Grey(0))
  /\ LET nx == cursor.x + 1
         wrap == nx >= Width
         ny == IF wrap THEN cursor.y + 1 ELSE cursor.y
     IN /\ cursor' = [x |-> IF wrap THEN 0 ELSE nx, y |-> ny]
        /\ mpc' = IF ny >= Height THEN "gamma" ELSE "render"
  /\ UNCHANGED <<file, exitStatus, traceVars>>

\* target.apply(gamma)
GammaPass ==
  /\ mpc = "gamma"
  /\ image' = [p \in DOMAIN image |-> Grade(image[p])]
  /\ mpc' = "save"
  /\ UNCHANGED <<cursor, file, exitStatus, traceVars>>

\* target.save: fopen succeeds, every pixel is written out, true is returned
SaveWritten ==
  /\ mpc = "save"
  /\ image' = [p \in DOMAIN image |-> Load(image[p])]
  /\ file' = "written"
  /\ mpc' = "return"
  /\ UNCHANGED <<cursor, exitStatus, traceVars>>

\* target.save: fopen returns nullptr, false is returned
SaveFailed ==
  /\ mpc = "save"
  /\ file' = "failed"
  /\ mpc' = "return"
  /\ UNCHANGED <<cursor, image, exitStatus, traceVars>>

\* the status main returns, given what save returned
ExitStatus(saved) == 0

\* return 0
Return ==
  /\ mpc = "return"
  /\ exitStatus' = ExitStatus(file = "written")
  /\ mpc' = "done"
  /\ UNCHANGED <<cursor, image, file, traceVars>>

---------------------------------------------------------------------------
(* Specifications *)

TraceIdle ==
  /\ objects = <<>>
  /\ lights = <<>>
  /\ stack = <<>>
  /\ ret = NoReturn
  /\ last = NoCall

MainIdle ==
  /\ mpc = "none"
  /\ cursor = [x |-> 0, y |-> 0]
  /\ image = <<>>
  /\ file = "none"
  /\ exitStatus = -1

\* a call of scene.trace with the default recursion budget
Init ==
  /\ objects \in Scenes
  /\ lights \in LightConfigs
  /\ \E o \in RayOrigins, d \in RayDirections :
       stack = <<Frame(o, d, max_recursion)>>
  /\ ret = NoReturn
  /\ last = NoCall
  /\ MainIdle

Next == TraceMiss \/ TraceLeaf \/ TraceRecurse \/ TraceResume

Spec == Init /\ [][Next]_vars

\* main, after Image target { 512, 512 }
MainInit ==
  /\ mpc = "clear"
  /\ cursor = [x |-> 0, y |-> 0]
  /\ image = [p \in 1 .. Width * Height |-> Pixel(Grey(0), 0, 0, 0, 0, 0)]
  /\ file = "none"
  /\ exitStatus = -1
  /\ TraceIdle

MainNext == Clear \/ RenderPixel \/ GammaPass \/ SaveWritten \/ SaveFailed \/ Return

MainSpec == MainInit /\ [][MainNext]_vars

---------------------------------------------------------------------------
(* Claims about Scene::trace's recursion *)

\* the work a call on the stack may still do: a call not yet past its intersect
\* may recurse once per unit of budget, a call waiting for its callee only returns
Work(frame) == IF frame.pc = "enter" THEN 2 * frame.recursion + 2 ELSE 1

TotalWork ==
  LET sum[i \in 0 .. Len(stack)] == IF i = 0 THEN 0 ELSE sum[i - 1] + Work(stack[i])
  IN sum[Len(stack)]

C1_Shape ==
  /\ Len(stack) <= max_recursion + 1
  /\ \A i \in 1 .. Len(stack) :
       /\ stack[i].recursion >= 0
       /\ i = 1 => stack[i].recursion = max_recursion
       /\ i > 1 => /\ stack[i].recursion = stack[i - 1].recursion - 1
                   /\ stack[i - 1].recursion > 0
  /\ stack # <<>> => (Top.pc = "wait" => ret.valid)

\* C1: a call of trace with the default budget of 10 terminates (every step
\* strictly decreases the work left, and a call waiting on top of the stack has
\* its callee's result to resume with), each recursive call has a budget exactly one smaller than its
\* caller's, no recursive call is made by a caller whose budget is 0, and at most
\* 11 calls are nested
C1_Terminates == [](C1_Shape) /\ [][TotalWork' < TotalWork]_vars

\* the 11th nested call, with budget 0, between two facing mirrors
C1_Deepest == Len(stack) = max_recursion + 1 /\ Top.recursion = 0

\* C6: every call that made a recursive call had budget left and hit a material
\* of reflectivity greater than 0; a call that hit a material of reflectivity 0
\* returned without one, whatever its budget
C6_ReflectOnlyIfReflective ==
  /\ \A i \in 1 .. Len(stack) - 1 :
       /\ stack[i].pc = "wait"
       /\ stack[i].recursion > 0
       /\ FGt(stack[i].intersection.material.reflectivity, 0)
  /\ (last.valid /\ last.child # "none") =>
       /\ last.recursion > 0
       /\ FGt(last.intersection.material.reflectivity, 0)
  /\ (last.valid /\ last.intersection.hit
        /\ last.intersection.material.reflectivity = 0) => last.child = "none"

\* a call with budget left that hit a material of reflectivity 0 and returned
C6_MatteWithBudget ==
  /\ last.valid
  /\ last.recursion > 0
  /\ last.intersection.hit
  /\ last.intersection.material.reflectivity = 0
  /\ last.child = "none"

\* C8: a finished call returned no color exactly if its own ray hits nothing
\* (Scene::intersect of that ray is empty); if it hit and the reflected ray's
\* trace returned no color, it returned the lit albedo plus black
C8_NoColorIffMiss ==
  last.valid =>
    /\ ~last.value.some <=>
         ~SceneIntersect(objects, last.ray_origin, last.ray_direction).hit
    /\ last.child = "nocolor" =>
         /\ last.intersection.hit
         /\ last.surface_albedo = Shade(objects, lights, last.intersection)
         /\ last.value = Some(CAdd(last.surface_albedo, Grey(0)))

\* a call whose reflected ray escaped the scene, and which returned a color
C8_ReflectionMissed ==
  last.valid /\ last.child = "nocolor" /\ last.value.some

---------------------------------------------------------------------------
(* Claims about the intersection tests *)

Ray(origin, direction) == [origin |-> origin, direction |-> direction]

\* the shadow rays of a call that hit at `hit`: one per light, if its lighting
\* step runs
ShadowRays(hit) ==
  { Ray(lights[k].position, Normalize(LightDelta(lights[k], hit.position))) :
      k \in { n \in 1 .. Len(lights) : hit.hit /\ Lit(hit.material.albedo) } }

\* the rays the call that finished last handed to intersect
CurrentRays ==
  IF last.valid
  THEN { Ray(last.ray_origin, last.ray_direction) } \cup ShadowRays(last.intersection)
  ELSE {}

\* what Scene::intersect returned for the ray: the finished call's own
\* intersection for its own ray
Returned(ray) ==
  IF ray = Ray(last.ray_origin, last.ray_direction) THEN last.intersection
  ELSE SceneIntersect(objects, ray.origin, ray.direction)

Reported(ray) ==
  [i \in 1 .. Len(objects) |-> ObjectIntersect(objects[i], ray.origin, ray.direction)]

\* C3: Scene::intersect returns a hit exactly if some shape reports one, and the
\* hit returned is that of the first shape among those reporting the least distance
C3_NearestOfReported ==
  \A ray \in CurrentRays :
    LET hits == Reported(ray)
        got == Returned(ray)
    IN /\ got.hit <=> \E i \in DOMAIN hits : hits[i].hit
       /\ got.hit =>
            \E i \in DOMAIN hits :
              /\ hits[i].hit
              /\ got = hits[i]
              /\ \A j \in DOMAIN hits : hits[j].hit => hits[j].distance >= hits[i].distance
              /\ \A j \in 1 .. i - 1 : hits[j].hit => hits[j].distance # hits[i].distance

\* C5: every Intersection a plane, a sphere or the scene returns has distance >= 0
C5_DistanceNonNegative ==
  \A ray \in CurrentRays :
    /\ \A i \in 1 .. Len(objects) :
         Reported(ray)[i].hit => FGe(Reported(ray)[i].distance, 0)
    /\ Returned(ray).hit => FGe(Returned(ray).distance, 0)

C10_Cases(sp, ray) ==
  LET d2 == SphereD2(sp, ray.origin, ray.direction)
      r2 == SphereRadius2(sp)
      tca == SphereTca(sp, ray.origin, ray.direction)
      thc == SphereThc(sp, ray.origin, ray.direction)
      t0 == FSub(tca, thc)
      t1 == FAdd(tca, thc)
      got == SphereIntersect(sp, ray.origin, ray.direction)
      onSphere == FEq(Length2(VSub(got.position, sp.at)), r2)
  IN /\ FGt(d2, r2) => ~got.hit
     /\ ~FGt(d2, r2) =>
          /\ ~FGt(t0, t1)
          /\ FGe(t0, 0) => got.hit /\ got.distance = t0
          /\ (FLt(t0, 0) /\ FGe(t1, 0)) => got.hit /\ got.distance = t1
          /\ (FLt(t0, 0) /\ FLt(t1, 0)) => ~got.hit
          /\ (got.hit /\ FEq(Length2(ray.direction), 1)
                /\ FEq(FMul(thc, thc), FSub(r2, d2))) => onSphere

\* C10: Sphere::intersect reports no hit if d2 > radius^2; otherwise, with the
\* roots t0 <= t1, it returns t0 if t0 >= 0, t1 if t0 < 0 <= t1, and no hit if
\* both are negative; for a unit direction the point it returns lies on the sphere
C10_SphereRootChoice ==
  \A ray \in CurrentRays :
    \A i \in 1 .. Len(objects) :
      objects[i].kind = "sphere" => C10_Cases(objects[i], ray)

\* a ray that starts inside a sphere and is given the far root
C10_FromInside ==
  /\ last.valid
  /\ last.intersection.hit
  /\ \E i \in 1 .. Len(objects) :
       /\ objects[i].kind = "sphere"
       /\ FLt(FSub(SphereTca(objects[i], last.ray_origin, last.ray_direction),
                   SphereThc(objects[i], last.ray_origin, last.ray_direction)), 0)
       /\ last.intersection = SphereIntersect(objects[i], last.ray_origin, last.ray_direction)
       /\ last.intersection.distance
            = FAdd(SphereTca(objects[i], last.ray_origin, last.ray_direction),
                   SphereThc(objects[i], last.ray_origin, last.ray_direction))

---------------------------------------------------------------------------
(* Claims about the lighting step *)

\* the shape lies strictly between the light position L and the point P: a
\* plane has them on opposite sides; a sphere is crossed by the segment from L
\* to P and holds neither end
LiesBetween(obj, L, P) ==
  IF obj.kind = "plane"
  THEN LET a == Dot(VSub(L, obj.at), obj.normal)
           b == Dot(VSub(P, obj.at), obj.normal)
       IN (FGt(a, 0) /\ FLt(b, 0)) \/ (FLt(a, 0) /\ FGt(b, 0))
  ELSE LET u == Normalize(VSub(P, L))
           tc == Dot(VSub(obj.at, L), u)
           r2 == FMul(obj.radius, obj.radius)
       IN /\ FGt(tc, 0)
          /\ FLt(tc, Length(VSub(P, L)))
          /\ ~FGt(FSub(Length2(VSub(obj.at, L)), FMul(tc, tc)), r2)
          /\ FGt(Length2(VSub(L, obj.at)), r2)
          /\ FGt(Length2(VSub(P, obj.at)), r2)

Without(objs, i) == [j \in 1 .. Len(objs) - 1 |-> IF j < i THEN objs[j] ELSE objs[j + 1]]

\* color * (power / distance)
Unobstructed(light, P) == CScale(light.color, FDiv(light.power, Length(VSub(P, light.position))))

\* the shape's own hit on the shadow ray is more than 1e-3 nearer to the light
\* than the point
ShadowsPoint(obj, light, P) ==
  Nearer(ObjectIntersect(obj, light.position, Normalize(VSub(P, light.position))),
         Length(VSub(P, light.position)))

\* a sphere, or a plane whose normal is turned against the shadow ray
FacesLight(obj, light, P) ==
  obj.kind = "sphere"
    \/ FGt(FNeg(Dot(obj.normal, Normalize(VSub(P, light.position)))), DenomEps)

LitCall == last.valid /\ last.intersection.hit /\ Lit(last.intersection.material.albedo)

\* C4 as claimed: a light with any shape, in any orientation, between itself
\* and the shaded point adds nothing, and adds color * power / distance once
\* that shape (the only one between) is removed
C4_AnyShapeBetweenOccludes ==
  LitCall =>
    \A k \in 1 .. Len(lights), i \in 1 .. Len(objects) :
      LiesBetween(objects[i], lights[k].position, last.intersection.position) =>
        /\ last.contribs[k] = Grey(0)
        /\ (\A j \in 1 .. Len(objects) :
              j # i => ~LiesBetween(objects[j], lights[k].position,
                                    last.intersection.position))
             => LightContribution(Without(objects, i), lights[k],
                                  last.intersection.position)
                  = Unobstructed(lights[k], last.intersection.position)

C4_Occluder(k, i) ==
  /\ LiesBetween(objects[i], lights[k].position, last.intersection.position)
  /\ FacesLight(objects[i], lights[k], last.intersection.position)
  /\ ShadowsPoint(objects[i], lights[k], last.intersection.position)

C4_OnlyOccluder(k, i) ==
  \A j \in 1 .. Len(objects) :
    j # i => ~ShadowsPoint(objects[j], lights[k], last.intersection.position)

\* C4, amended: a light adds nothing if a sphere, or a plane whose normal faces
\* the light, lies between the light and the shaded point with its surface more
\* than 1e-3 nearer to the light than the point; with that shape removed, and no
\* other shape that near on the shadow ray, the light adds color * (power / distance)
C4_FacingShapeOccludes ==
  LitCall =>
    \A k \in 1 .. Len(lights), i \in 1 .. Len(objects) :
      C4_Occluder(k, i) =>
        /\ last.contribs[k] = Grey(0)
        /\ C4_OnlyOccluder(k, i) =>
             LightContribution(Without(objects, i), lights[k],
                               last.intersection.position)
               = Unobstructed(lights[k], last.intersection.position)

\* a light shut off by a single occluder, which would add light without it
C4_Shadowed ==
  /\ LitCall
  /\ \E k \in 1 .. Len(lights), i \in 1 .. Len(objects) :
       /\ C4_Occluder(k, i)
       /\ C4_OnlyOccluder(k, i)
       /\ last.contribs[k] = Grey(0)
       /\ Unobstructed(lights[k], last.intersection.position) # Grey(0)

\* C9: the albedo a call returns after the lighting step equals the albedo
\* multiplied by the lighting accumulator, whether or not the step was skipped
C9_SkipIsInvisible ==
  (last.valid /\ last.intersection.hit) =>
    last.surface_albedo
      = CMul(last.intersection.material.albedo,
             Lighting(objects, lights, last.intersection.position))

---------------------------------------------------------------------------
(* Claims about main *)

Pixels == DOMAIN image

\* C2: when save cannot create the file, main ends with a non-zero status
C2_SaveFailureIsFatal ==
  (mpc = "done" /\ file = "failed") => exitStatus # 0

\* C7 as claimed: over the run each pixel is written exactly once and never
\* read after it was written
C7_WrittenOnceNeverRead ==
  /\ \A p \in Pixels : image[p].writes <= 1 /\ image[p].reads = 0
  /\ mpc = "done" => \A p \in Pixels : image[p].writes = 1

Rendered(p) ==
  mpc \notin {"clear", "render"} \/ (mpc = "render" /\ p < PixelIndex(cursor.x, cursor.y))

\* C7, amended: the frame loop writes each pixel exactly once and reads none;
\* over the whole run each pixel is written three times (clear, the frame loop,
\* the gamma pass) and is read after its frame-loop write by the gamma pass and,
\* if the file opens, by save
C7_SetOncePerPixel ==
  \A p \in Pixels :
    /\ image[p].sets = IF Rendered(p) THEN 1 ELSE 0
    /\ image[p].loopReads = 0
    /\ mpc \in {"clear", "render", "gamma"} => image[p].reads = 0
    /\ mpc = "done" =>
         /\ image[p].writes = 3
         /\ image[p].reads = IF file = "written" THEN 2 ELSE 1

\* the run has ended with the file written
C7_RunEnded ==
  /\ mpc = "done"
  /\ file = "written"
  /\ \A p \in Pixels : image[p].sets = 1 /\ image[p].writes = 3 /\ image[p].reads = 2

=============================================================================
